---- MODULE Spec2Model ----
(***************************************************************************)
(* Shamir secret sharing core of paperback (paperback-core, shamir.rs):    *)
(* Shard, its wire codec, Dealer::new / secret / next_shard / recover and  *)
(* recover_secret.                                                         *)
(*                                                                         *)
(* The finite field substrate (shamir::gf: GfElem, GfPolynomial) and the   *)
(* varint parsers (nom_helpers) are modelled from the specification text.  *)
(* The field is scaled: an element is still ElemBytes = 4 bytes wide, but  *)
(* a byte carries ByteBits = 1 bit, so the field is GF(2^4) instead of     *)
(* GF(2^32).  Every algebraic step (XOR addition, carry-less               *)
(* multiplication with reduction, Horner evaluation, Lagrange              *)
(* interpolation) is computed, none is assumed.                            *)
(***************************************************************************)
EXTENDS Integers, Sequences, FiniteSets, TLC

VARIABLES
    dealer,     \* the Dealer built by Dealer::new, or NoDealer
    secret,     \* the byte string the dealer was built from
    shards,     \* the caller's list of shards (minted, or fabricated)
    dsecret,    \* return value of Dealer::secret
    rsec,       \* return value of recover_secret(shards) since the last
                \* next_shard call
    rdealer,    \* return value of Dealer::recover(shards) since then
    wire,       \* return value of Shard::to_wire
    parsed,     \* return value of Shard::from_wire(wire)
    panic       \* message of the assertion the last call died on, "none"
                \* when it returned

vars == <<dealer, secret, shards, dsecret, rsec, rdealer, wire, parsed, panic>>

(***************************************************************************)
(* Bounds of the model.                                                    *)
(***************************************************************************)
MaxThreshold == 3
MaxSecretLen == 5

(***************************************************************************)
(* GF(2^ElemBits): shamir::gf::GfElem.                                     *)
(***************************************************************************)
ElemBytes == 4
ByteBits == 1
ElemBits == ElemBytes * ByteBits
ByteBase == 2 ^ ByteBits
Order == 2 ^ ElemBits
ByteVals == 0 .. (ByteBase - 1)
GfElems == 0 .. (Order - 1)
ZERO == 0
ONE == 1
\* x^4 + x + 1, irreducible over GF(2)
POLYNOMIAL == 19

RECURSIVE XorBits(_, _, _)
XorBits(a, b, n) ==
    IF n = 0 THEN 0
    ELSE ((a + b) % 2) + 2 * XorBits(a \div 2, b \div 2, n - 1)

AddTable == [a \in GfElems |-> [b \in GfElems |-> XorBits(a, b, ElemBits)]]

\* addition and subtraction are both XOR in characteristic 2
GfAdd(a, b) == AddTable[a][b]

\* a * x, reduced
XTime(a) ==
    IF 2 * a >= Order THEN XorBits(2 * a, POLYNOMIAL, ElemBits + 1) ELSE 2 * a

RECURSIVE MulLoop(_, _, _)
MulLoop(a, b, acc) ==
    IF b = 0 THEN acc
    ELSE MulLoop(XTime(a), b \div 2, IF b % 2 = 1 THEN GfAdd(acc, a) ELSE acc)

MulTable == [a \in GfElems |-> [b \in GfElems |-> MulLoop(a, b, ZERO)]]

GfMul(a, b) == MulTable[a][b]

\* defined on non-zero elements only; the inverse of zero is never requested
InvTable == [a \in GfElems \ {ZERO} |-> CHOOSE b \in GfElems : GfMul(a, b) = ONE]

GfInv(a) == InvTable[a]

\* from_bytes: up to ElemBytes bytes, zero-padded on the right, little endian
RECURSIVE FromBytesAt(_, _)
FromBytesAt(bytes, i) ==
    IF i > Len(bytes) THEN 0
    ELSE bytes[i] + ByteBase * FromBytesAt(bytes, i + 1)

GfFromBytes(bytes) == FromBytesAt(bytes, 1)

\* to_bytes: exactly ElemBytes bytes
GfToBytes(e) == [i \in 1 .. ElemBytes |-> (e \div (ByteBase ^ (i - 1))) % ByteBase]

(***************************************************************************)
(* shamir::gf::GfPolynomial: a sequence of coefficients, constant first.   *)
(***************************************************************************)
PolyConstant(p) == p[1]

RECURSIVE EvalFrom(_, _, _)
EvalFrom(p, x, i) ==
    IF i > Len(p) THEN ZERO
    ELSE GfAdd(p[i], GfMul(x, EvalFrom(p, x, i + 1)))

\* Horner evaluation
PolyEvaluate(p, x) == EvalFrom(p, x, 1)

PolyAdd(p, q) == [i \in 1 .. Len(p) |-> GfAdd(p[i], q[i])]

PolyScale(p, c) == [i \in 1 .. Len(p) |-> GfMul(c, p[i])]

\* p(X) * (X - r)
PolyMulLinear(p, r) ==
    [i \in 1 .. (Len(p) + 1) |->
        GfAdd(IF i <= Len(p) THEN GfMul(r, p[i]) ELSE ZERO,
              IF i > 1 THEN p[i - 1] ELSE ZERO)]

HasDupX(points) ==
    \E i, j \in 1 .. Len(points) : i < j /\ points[i][1] = points[j][1]

\* numerator of the j-th Lagrange basis polynomial: prod_{m # j} (X - x_m)
RECURSIVE BasisNum(_, _, _)
BasisNum(points, j, m) ==
    IF m = 0 THEN <<ONE>>
    ELSE IF m = j THEN BasisNum(points, j, m - 1)
    ELSE PolyMulLinear(BasisNum(points, j, m - 1), points[m][1])

\* its denominator: prod_{m # j} (x_j - x_m)
RECURSIVE BasisDen(_, _, _)
BasisDen(points, j, m) ==
    IF m = 0 THEN ONE
    ELSE IF m = j THEN BasisDen(points, j, m - 1)
    ELSE GfMul(BasisDen(points, j, m - 1), GfAdd(points[j][1], points[m][1]))

RECURSIVE LagrangeSum(_, _)
LagrangeSum(points, j) ==
    IF j = 0 THEN [i \in 1 .. Len(points) |-> ZERO]
    ELSE PolyAdd(LagrangeSum(points, j - 1),
                 PolyScale(BasisNum(points, j, Len(points)),
                           GfMul(points[j][2],
                                 GfInv(BasisDen(points, j, Len(points))))))

\* lagrange(degree, points): the polynomial of degree+1 coefficients through
\* the points; a programmer error on a wrong point count or colliding x
Lagrange(degree, points) ==
    IF Len(points) # degree + 1 THEN [ok |-> FALSE, poly |-> <<>>]
    ELSE IF HasDupX(points) THEN [ok |-> FALSE, poly |-> <<>>]
    ELSE [ok |-> TRUE, poly |-> LagrangeSum(points, Len(points))]

\* prod_{m # j} x_m / (x_m - x_j)
RECURSIVE ConstWeight(_, _, _)
ConstWeight(points, j, m) ==
    IF m = 0 THEN ONE
    ELSE IF m = j THEN ConstWeight(points, j, m - 1)
    ELSE GfMul(ConstWeight(points, j, m - 1),
               GfMul(points[m][1], GfInv(GfAdd(points[m][1], points[j][1]))))

RECURSIVE ConstSum(_, _)
ConstSum(points, j) ==
    IF j = 0 THEN ZERO
    ELSE GfAdd(ConstSum(points, j - 1),
               GfMul(points[j][2], ConstWeight(points, j, Len(points))))

\* lagrange_constant(degree, points): p(0) only
LagrangeConstant(degree, points) ==
    IF Len(points) # degree + 1 THEN [ok |-> FALSE, val |-> ZERO]
    ELSE IF HasDupX(points) THEN [ok |-> FALSE, val |-> ZERO]
    ELSE [ok |-> TRUE, val |-> ConstSum(points, Len(points))]

(***************************************************************************)
(* Shard and Dealer (shamir.rs).                                           *)
(***************************************************************************)
Min(a, b) == IF a < b THEN a ELSE b

MakeShard(x, ys, secret_len, threshold) ==
    [x |-> x, ys |-> ys, secret_len |-> secret_len, threshold |-> threshold]

MakeDealer(polys, secret_len, threshold) ==
    [polys |-> polys, secret_len |-> secret_len, threshold |-> threshold]

\* no Dealer has been built: a Dealer's threshold is never 0
NoDealer == MakeDealer(<<>>, 0, 0)

\* secret.chunks(size_of::<GfElemPrimitive>()): the last chunk may be short
NumChunks(n) == (n + ElemBytes - 1) \div ElemBytes

Chunks(bytes) ==
    [k \in 1 .. NumChunks(Len(bytes)) |->
        SubSeq(bytes, ElemBytes * (k - 1) + 1, Min(ElemBytes * k, Len(bytes)))]

\* iter.flat_map(|x| x.to_bytes())
RECURSIVE FlatBytes(_, _)
FlatBytes(elems, i) ==
    IF i > Len(elems) THEN <<>>
    ELSE GfToBytes(elems[i]) \o FlatBytes(elems, i + 1)

\* iter.take(n)
Take(bytes, n) == SubSeq(bytes, 1, Min(n, Len(bytes)))

\* Dealer::new(threshold, secret); rand[i] is what GfPolynomial::new_rand
\* (threshold - 1) returned for chunk i
DealerNew(threshold, bytes, rand) ==
    IF ~(threshold > 0)
    THEN [ok |-> FALSE, msg |-> "must at least have a threshold of one",
          dealer |-> NoDealer]
    ELSE LET chunks == Chunks(bytes)
         IN  [ok |-> TRUE, msg |-> "none",
              dealer |-> MakeDealer(
                  [i \in 1 .. Len(chunks) |->
                      [rand[i] EXCEPT ![1] = GfFromBytes(chunks[i])]],
                  Len(bytes), threshold)]

\* Dealer::secret without its take(secret_len)
DealerSecretNoTake(d) ==
    FlatBytes([i \in 1 .. Len(d.polys) |-> PolyConstant(d.polys[i])], 1)

\* Dealer::secret
DealerSecret(d) ==
    Take(FlatBytes([i \in 1 .. Len(d.polys) |-> PolyConstant(d.polys[i])], 1),
         d.secret_len)

\* next_shard without its rejection loop
AcceptXAny(x) == TRUE

\* the loop condition of next_shard: a sampled x is kept unless it is ZERO
AcceptX(x) == x # ZERO

SanityMsg == "assertion failed: self.threshold == 1 || y != poly.constant()"

\* the sanity assertion of next_shard on one polynomial
SanityHolds(d, poly, y) == d.threshold = 1 \/ y # PolyConstant(poly)

\* Dealer::next_shard, with x the element the sampling loop ended on
NextShardAt(d, x) ==
    LET ys == [i \in 1 .. Len(d.polys) |-> PolyEvaluate(d.polys[i], x)]
    IN  IF \E i \in 1 .. Len(d.polys) : ~SanityHolds(d, d.polys[i], ys[i])
        THEN [ok |-> FALSE, msg |-> SanityMsg,
              shard |-> MakeShard(ZERO, <<>>, 0, 0)]
        ELSE [ok |-> TRUE, msg |-> "none",
              shard |-> MakeShard(x, ys, d.secret_len, d.threshold)]

\* the points with every shard's first y, whatever the index
PointsFirstY(list, i) == [j \in 1 .. Len(list) |-> <<list[j].x, list[j].ys[1]>>]

\* the points with the first shard's y for every shard
PointsHeadY(list, i) == [j \in 1 .. Len(list) |-> <<list[j].x, list[1].ys[i]>>]

\* the points handed to the interpolation for polynomial index i
Points(list, i) == [j \in 1 .. Len(list) |-> <<list[j].x, list[j].ys[i]>>]

\* the assertions at the head of Dealer::recover
DealerRecoverChecks(list) ==
    IF ~(Len(list) > 0) THEN "must be provided at least one shard"
    ELSE IF \E j \in 1 .. Len(list) :
                \/ list[j].threshold # list[1].threshold
                \/ Len(list[j].ys) # Len(list[1].ys)
                \/ list[j].secret_len # list[1].secret_len
         THEN "shards must be consistent"
    ELSE IF Len(list) # list[1].threshold THEN "must have exactly threshold shards"
    ELSE "none"

\* the assertions of recover_secret without the one on secret_len
RecoverSecretChecksNoLen(list) ==
    IF ~(Len(list) > 0) THEN "must be provided at least one shard"
    ELSE IF \E j \in 1 .. Len(list) :
                \/ list[j].threshold # list[1].threshold
                \/ Len(list[j].ys) # Len(list[1].ys)
         THEN "shards must be consistent"
    ELSE IF Len(list) # list[1].threshold THEN "must have exactly threshold shards"
    ELSE "none"

\* the assertions at the head of recover_secret
RecoverSecretChecks(list) ==
    IF ~(Len(list) > 0) THEN "must be provided at least one shard"
    ELSE IF \E j \in 1 .. Len(list) :
                \/ list[j].threshold # list[1].threshold
                \/ Len(list[j].ys) # Len(list[1].ys)
                \/ list[j].secret_len # list[1].secret_len
         THEN "shards must be consistent"
    ELSE IF Len(list) # list[1].threshold THEN "must have exactly threshold shards"
    ELSE "none"

\* a value not yet returned
NotCalled == [st |-> "none", msg |-> "none", interp |-> 0]

\* Dealer::recover rebuilding the constants alone
DealerRecoverConstOnly(list) ==
    LET failed == DealerRecoverChecks(list)
    IN
    IF failed # "none"
    THEN [st |-> "abort", msg |-> failed, interp |-> 0]
    ELSE LET threshold == list[1].threshold
             polys_len == Len(list[1].ys)
             secret_len == list[1].secret_len
             res == [i \in 1 .. polys_len |->
                        LagrangeConstant(threshold - 1, Points(list, i))]
         IN  IF \E i \in 1 .. polys_len : ~res[i].ok
             THEN [st |-> "abort", msg |-> "lagrange", interp |-> 1]
             ELSE [st |-> "ok", msg |-> "none", interp |-> polys_len,
                   val |-> MakeDealer(
                       [i \in 1 .. polys_len |->
                           [c \in 1 .. threshold |->
                               IF c = 1 THEN res[i].val ELSE ZERO]],
                       secret_len, threshold)]

\* Dealer::recover(list); interp counts the interpolations started
DealerRecover(list) ==
    LET failed == DealerRecoverChecks(list)
    IN
    IF failed # "none"
    THEN [st |-> "abort", msg |-> failed, interp |-> 0]
    ELSE LET threshold == list[1].threshold
             polys_len == Len(list[1].ys)
             secret_len == list[1].secret_len
             res == [i \in 1 .. polys_len |-> Lagrange(threshold - 1, Points(list, i))]
         IN  IF \E i \in 1 .. polys_len : ~res[i].ok
             THEN [st |-> "abort", msg |-> "lagrange", interp |-> 1]
             ELSE [st |-> "ok", msg |-> "none", interp |-> polys_len,
                   val |-> MakeDealer([i \in 1 .. polys_len |-> res[i].poly],
                                      secret_len, threshold)]

\* recover_secret without its take(secret_len)
RecoverSecretNoTake(list) ==
    LET failed == RecoverSecretChecks(list)
    IN
    IF failed # "none"
    THEN [st |-> "abort", msg |-> failed, interp |-> 0]
    ELSE LET threshold == list[1].threshold
             polys_len == Len(list[1].ys)
             res == [i \in 1 .. polys_len |->
                        LagrangeConstant(threshold - 1, Points(list, i))]
         IN  IF \E i \in 1 .. polys_len : ~res[i].ok
             THEN [st |-> "abort", msg |-> "lagrange", interp |-> 1]
             ELSE [st |-> "ok", msg |-> "none", interp |-> polys_len,
                   val |-> FlatBytes([i \in 1 .. polys_len |-> res[i].val], 1)]

\* the y indices recover_secret interpolates: its iterator chain is lazy and
\* take(secret_len) stops asking once secret_len bytes are out, so an index is
\* reached only when a byte of its element is asked for
Started(polys_len, secret_len) == Min(polys_len, NumChunks(secret_len))

\* recover_secret(list); interp counts the interpolations started
RecoverSecret(list) ==
    LET failed == RecoverSecretChecks(list)
    IN
    IF failed # "none"
    THEN [st |-> "abort", msg |-> failed, interp |-> 0]
    ELSE LET threshold == list[1].threshold
             polys_len == Len(list[1].ys)
             secret_len == list[1].secret_len
             started == Started(polys_len, secret_len)
             res == [i \in 1 .. started |->
                        LagrangeConstant(threshold - 1, Points(list, i))]
         IN  IF \E i \in 1 .. started : ~res[i].ok
             THEN [st |-> "abort", msg |-> "lagrange", interp |-> 1]
             ELSE [st |-> "ok", msg |-> "none", interp |-> started,
                   val |-> Take(FlatBytes([i \in 1 .. started |-> res[i].val], 1),
                                secret_len)]

(***************************************************************************)
(* The wire codec: unsigned varints (LEB128, 7 bits a byte, least          *)
(* significant group first, high bit set on every byte but the last).      *)
(***************************************************************************)
VarintBase == 128

\* unsigned_varint::encode::u32 / ::usize
RECURSIVE EncodeVarint(_)
EncodeVarint(n) ==
    IF n < VarintBase THEN <<n>>
    ELSE <<(n % VarintBase) + VarintBase>> \o EncodeVarint(n \div VarintBase)

RECURSIVE EncodeAll(_, _)
EncodeAll(ys, i) ==
    IF i > Len(ys) THEN <<>>
    ELSE EncodeVarint(ys[i]) \o EncodeAll(ys, i + 1)

\* Shard::to_wire without the length prefix of ys
ToWireNoCount(q) ==
    EncodeVarint(q.x)
    \o EncodeAll(q.ys, 1)
    \o EncodeVarint(q.threshold)
    \o EncodeVarint(q.secret_len)

\* Shard::to_wire
ToWire(q) ==
    EncodeVarint(q.x)
    \o EncodeVarint(Len(q.ys)) \o EncodeAll(q.ys, 1)
    \o EncodeVarint(q.threshold)
    \o EncodeVarint(q.secret_len)

\* the longest encodings of a u32 and of a usize
MaxU32Bytes == 5
MaxUsizeBytes == 10

\* nom_helpers::u32 / ::usize: one varint off the front of the input
RECURSIVE DecodeAt(_, _, _, _)
DecodeAt(bytes, i, maxlen, acc) ==
    IF i >= Len(bytes) THEN [ok |-> FALSE, val |-> 0, rest |-> <<>>]
    ELSE LET b == bytes[i + 1]
             n == acc + (b % VarintBase) * (VarintBase ^ i)
         IN  IF b < VarintBase
             THEN IF b = 0 /\ i > 0
                  THEN [ok |-> FALSE, val |-> 0, rest |-> <<>>]
                  ELSE [ok |-> TRUE, val |-> n,
                        rest |-> SubSeq(bytes, i + 2, Len(bytes))]
             ELSE IF i = maxlen - 1
                  THEN [ok |-> FALSE, val |-> 0, rest |-> <<>>]
                  ELSE DecodeAt(bytes, i + 1, maxlen, n)

DecodeVarint(bytes, maxlen) == DecodeAt(bytes, 0, maxlen, 0)

\* many_m_n(count, count, nom_helpers::u32)
RECURSIVE DecodeMany(_, _)
DecodeMany(bytes, count) ==
    IF count = 0 THEN [ok |-> TRUE, val |-> <<>>, rest |-> bytes]
    ELSE LET one == DecodeVarint(bytes, MaxU32Bytes)
         IN  IF ~one.ok THEN [ok |-> FALSE, val |-> <<>>, rest |-> <<>>]
             ELSE LET more == DecodeMany(one.rest, count - 1)
                  IN  IF ~more.ok THEN more
                      ELSE [ok |-> TRUE, val |-> <<one.val>> \o more.val,
                            rest |-> more.rest]

ParseError == [st |-> "err", msg |-> "parse", interp |-> 0]

\* Shard::from_wire_partial
FromWirePartial(input) ==
    LET x == DecodeVarint(input, MaxU32Bytes)
    IN  IF ~x.ok THEN ParseError ELSE
    LET ys_length == DecodeVarint(x.rest, MaxUsizeBytes)
    IN  IF ~ys_length.ok THEN ParseError ELSE
    LET ys == DecodeMany(ys_length.rest, ys_length.val)
    IN  IF ~ys.ok THEN ParseError ELSE
    LET threshold == DecodeVarint(ys.rest, MaxU32Bytes)
    IN  IF ~threshold.ok THEN ParseError ELSE
    LET secret_len == DecodeVarint(threshold.rest, MaxUsizeBytes)
    IN  IF ~secret_len.ok THEN ParseError ELSE
        [st |-> "ok", msg |-> "none", interp |-> 0,
         val |-> MakeShard(x.val, ys.val, secret_len.val, threshold.val),
         rest |-> secret_len.rest]

\* FromWire::from_wire: the whole input must be consumed
FromWire(input) ==
    LET got == FromWirePartial(input)
    IN  IF got.st = "ok" /\ got.rest # <<>> THEN ParseError ELSE got

(***************************************************************************)
(* Inputs: the secrets a caller passes and what the random source yields.  *)
(***************************************************************************)
MaxShards == MaxThreshold

\* byte i of the k-th long secret: all zero, all one, and two mixed patterns
PatternByte(k, i) ==
    CASE k = 0 -> 0
      [] k = 1 -> ByteBase - 1
      [] k = 2 -> (i \div ElemBytes) % ByteBase
      [] OTHER -> (i \div 2) % ByteBase

\* every secret of at most one chunk, and four patterns of each greater length
Secrets ==
    UNION {[1 .. n -> ByteVals] : n \in 0 .. Min(ElemBytes, MaxSecretLen)}
    \cup {[i \in 1 .. n |-> PatternByte(k, i)] :
              k \in 0 .. 3, n \in (ElemBytes + 1) .. MaxSecretLen}

\* values the random source yields for a coefficient
RandCoeffs == {0, 7}

\* values the random source yields for a shard's x: zero, and as many
\* others as a recovery needs
RandXs == 0 .. MaxThreshold

\* GfPolynomial::new_rand(threshold - 1), once per chunk
RandPolys(threshold, bytes) ==
    IF threshold = 0 THEN {<<>>}
    ELSE [1 .. NumChunks(Len(bytes)) -> [1 .. threshold -> RandCoeffs]]

(***************************************************************************)
(* The dealer's life: new, secret, next_shard, then recovery from the      *)
(* list of shards the caller holds.                                        *)
(***************************************************************************)
Init ==
    /\ dealer = NoDealer
    /\ secret = <<>>
    /\ shards = <<>>
    /\ dsecret = NotCalled
    /\ rsec = NotCalled
    /\ rdealer = NotCalled
    /\ wire = <<>>
    /\ parsed = NotCalled
    /\ panic = "none"

New ==
    /\ dealer = NoDealer
    /\ \E t \in 0 .. MaxThreshold, s \in Secrets :
         \E rand \in RandPolys(t, s) :
            LET made == DealerNew(t, s, rand)
            IN  /\ dealer' = made.dealer
                /\ panic' = made.msg
                /\ secret' = IF made.ok THEN s ELSE secret
    /\ UNCHANGED <<shards, dsecret, rsec, rdealer, wire, parsed>>

Secret ==
    /\ dealer # NoDealer
    /\ dsecret.st = "none"
    /\ dsecret' = [st |-> "ok", msg |-> "none", interp |-> 0,
                   val |-> DealerSecret(dealer)]
    /\ panic' = "none"
    /\ UNCHANGED <<dealer, secret, shards, rsec, rdealer, wire, parsed>>

NextShard ==
    /\ dealer # NoDealer
    /\ Len(shards) < MaxShards
    /\ \E x \in RandXs :
         IF ~AcceptX(x)
         THEN UNCHANGED <<shards, panic, rsec, rdealer>>
         ELSE LET minted == NextShardAt(dealer, x)
              IN  /\ panic' = minted.msg
                  /\ shards' = IF minted.ok THEN Append(shards, minted.shard)
                                ELSE shards
                  /\ rsec' = NotCalled
                  /\ rdealer' = NotCalled
    /\ UNCHANGED <<dealer, secret, dsecret, wire, parsed>>

RecoverSecretCall ==
    /\ rsec.st = "none"
    /\ rsec' = RecoverSecret(shards)
    /\ panic' = rsec'.msg
    /\ UNCHANGED <<dealer, secret, shards, dsecret, rdealer, wire, parsed>>

DealerRecoverCall ==
    /\ rdealer.st = "none"
    /\ rdealer' = DealerRecover(shards)
    /\ panic' = rdealer'.msg
    /\ UNCHANGED <<dealer, secret, shards, dsecret, rsec, wire, parsed>>

Next ==
    \/ New
    \/ NextShard
    \/ RecoverSecretCall
    \/ DealerRecoverCall

Spec == Init /\ [][Next]_vars

(***************************************************************************)
(* Dealer::secret reads the dealer alone: new, then secret.                *)
(***************************************************************************)
NextSecret ==
    \/ New
    \/ Secret

SpecSecret == Init /\ [][NextSecret]_vars

(***************************************************************************)
(* Recovery from lists a caller can hand in whatever their origin: shards  *)
(* are plain data, and from_wire builds any of them.                       *)
(***************************************************************************)
FabXs == 0 .. (MaxThreshold - 1)

FabYs(n) ==
    CASE n = 0 -> {<<>>}
      [] n = 1 -> {<<5>>, <<11>>}
      [] OTHER -> {<<5, 11>>, <<11, 6>>}

\* no byte asked for, a short last element, more bytes than one element
FabSecretLens == {0, 3, 5}

\* lists whose shards agree on threshold, number of ys and secret_len
ConsistentLists ==
    UNION {[1 .. n -> {MakeShard(x, ys, sl, t) : x \in FabXs, ys \in FabYs(yl)}] :
              n \in 0 .. MaxThreshold, t \in 1 .. MaxThreshold,
              yl \in 0 .. 2, sl \in FabSecretLens}

\* lists whose shards need not agree on anything
MixedLists ==
    UNION {[1 .. n -> {MakeShard(x, ys, sl, t) :
                          x \in {1, 2}, ys \in {<<5>>, <<5, 11>>},
                          sl \in FabSecretLens,
                          t \in {MaxThreshold - 1, MaxThreshold}}] :
              n \in 0 .. MaxThreshold}

InitFab ==
    /\ dealer = NoDealer
    /\ secret = <<>>
    /\ shards \in ConsistentLists \cup MixedLists
    /\ dsecret = NotCalled
    /\ rsec = NotCalled
    /\ rdealer = NotCalled
    /\ wire = <<>>
    /\ parsed = NotCalled
    /\ panic = "none"

NextFab ==
    \/ RecoverSecretCall
    \/ DealerRecoverCall

SpecFab == InitFab /\ [][NextFab]_vars

(***************************************************************************)
(* The codec on arbitrary shards; x and ys travel as the u32 that          *)
(* GfElem::inner returns, whatever the field makes of it.                  *)
(***************************************************************************)
WireVals == {0, 1, 127, 128, 300, 16383, 16384, 2097152, 2147483647}

WireYs == {<<>>, <<0>>, <<128>>, <<2, 127>>, <<16384, 1>>, <<300, 0, 2147483647>>}

InitWire ==
    /\ dealer = NoDealer
    /\ secret = <<>>
    /\ \E x \in WireVals, ys \in WireYs, sl \in WireVals, t \in WireVals :
          shards = <<MakeShard(x, ys, sl, t)>>
    /\ dsecret = NotCalled
    /\ rsec = NotCalled
    /\ rdealer = NotCalled
    /\ wire = <<>>
    /\ parsed = NotCalled
    /\ panic = "none"

ToWireCall ==
    /\ wire = <<>>
    /\ wire' = ToWire(shards[1])
    /\ UNCHANGED <<dealer, secret, shards, dsecret, rsec, rdealer, parsed, panic>>

FromWireCall ==
    /\ wire # <<>>
    /\ parsed.st = "none"
    /\ parsed' = FromWire(wire)
    /\ UNCHANGED <<dealer, secret, shards, dsecret, rsec, rdealer, wire, panic>>

NextWire ==
    \/ ToWireCall
    \/ FromWireCall

SpecWire == InitWire /\ [][NextWire]_vars

(***************************************************************************)
(* Properties.                                                             *)
(***************************************************************************)
DistinctX(list) ==
    \A i, j \in 1 .. Len(list) : i # j => list[i].x # list[j].x

Reorderings(n) ==
    {f \in [1 .. n -> 1 .. n] : \A i, j \in 1 .. n : i # j => f[i] # f[j]}

\* C1: Dealer::new(t, S).secret() returns exactly S, for every threshold
\* t >= 1, every S (empty, or of a length that is no multiple of 4) and
\* every value of the random higher coefficients.
C1_SecretRoundTrip ==
    dsecret.st = "ok" => dsecret.val = secret

C1_Witness ==
    /\ dsecret.st = "ok"
    /\ dsecret.val = secret
    /\ Len(secret) = ElemBytes + 1
    /\ dealer.threshold = 3
    /\ dealer.polys[2][2] # ZERO

\* C2: t shards minted by Dealer::new(t, S) with pairwise distinct x, passed
\* to recover_secret, yield exactly S.
C2_RecoverSecretYieldsSecret ==
    (/\ dealer # NoDealer
     /\ rsec.st # "none"
     /\ Len(shards) = dealer.threshold
     /\ DistinctX(shards))
    => (rsec.st = "ok" /\ rsec.val = secret)

C2_Witness ==
    /\ rsec.st = "ok"
    /\ rsec.val = secret
    /\ dealer.threshold = 3
    /\ Len(shards) = 3
    /\ Len(secret) = ElemBytes + 1
    /\ dealer.polys[1][3] # ZERO
    /\ dealer.polys[2][2] # ZERO

\* C3: for t >= 2, Dealer::recover on t minted shards with pairwise distinct
\* x returns a dealer whose polys equal the original dealer's coefficient
\* for coefficient, with the same threshold and secret_len.
C3_RecoverYieldsDealer ==
    (/\ dealer.threshold >= 2
     /\ rdealer.st # "none"
     /\ Len(shards) = dealer.threshold
     /\ DistinctX(shards))
    => (/\ rdealer.st = "ok"
        /\ rdealer.val.polys = dealer.polys
        /\ rdealer.val.threshold = dealer.threshold
        /\ rdealer.val.secret_len = dealer.secret_len)

C3_Witness ==
    /\ rdealer.st = "ok"
    /\ rdealer.val.polys = dealer.polys
    /\ dealer.threshold = 3
    /\ Len(dealer.polys) = 2
    /\ dealer.polys[1][3] # ZERO
    /\ dealer.polys[2][3] = ZERO
    /\ dealer.polys[2][2] # ZERO

\* C4: from_wire(to_wire(Q)) succeeds and returns Q in all four fields, with
\* nothing of the input left over, for every shard Q.
C4_WireRoundTrip ==
    parsed.st # "none"
    => (/\ wire = ToWire(shards[1])
        /\ parsed.st = "ok"
        /\ parsed.val = shards[1]
        /\ parsed.rest = <<>>)

C4_Witness ==
    /\ parsed.st = "ok"
    /\ parsed.val = shards[1]
    /\ shards[1].x = 2147483647
    /\ Len(shards[1].ys) = 3
    /\ shards[1].threshold = 128
    /\ shards[1].secret_len = 16384
    /\ Len(wire) = 19

\* the lists the three checks are to reject, in the claim's words
Rejected(list) ==
    \/ Len(list) = 0
    \/ \E j \in 1 .. Len(list) :
          \/ list[j].threshold # list[1].threshold
          \/ Len(list[j].ys) # Len(list[1].ys)
          \/ list[j].secret_len # list[1].secret_len
    \/ Len(list) # list[1].threshold

ByChecks(r) == r.st = "abort" /\ r.msg # "lagrange"

\* C5: Dealer::recover and recover_secret abort on their checks for exactly
\* the same lists: the empty list, a list with a shard whose threshold,
\* number of ys or secret_len differs from the first shard's, a list whose
\* length is not the threshold; they do so before any interpolation, and a
\* list passing the three checks is not rejected by them.
C5_SameRejections ==
    /\ rsec.st # "none"
       => /\ ByChecks(rsec) <=> Rejected(shards)
          /\ ByChecks(rsec) => rsec.interp = 0
    /\ rdealer.st # "none"
       => /\ ByChecks(rdealer) <=> Rejected(shards)
          /\ ByChecks(rdealer) => rdealer.interp = 0
    /\ (rsec.st # "none" /\ rdealer.st # "none")
       => (ByChecks(rsec) <=> ByChecks(rdealer))

C5_Witness ==
    /\ ByChecks(rsec)
    /\ ByChecks(rdealer)
    /\ Len(shards) = 2
    /\ shards[1].threshold = 2
    /\ shards[2].threshold = 2
    /\ Len(shards[1].ys) = Len(shards[2].ys)
    /\ shards[1].secret_len # shards[2].secret_len

\* every dealer Dealer::new(k, bytes) can build, over all the random source
\* can yield for the higher coefficients
AllDealers(k, bytes) ==
    {DealerNew(k, bytes, [i \in 1 .. NumChunks(Len(bytes)) |-> <<ZERO>> \o hi[i]]).dealer :
        hi \in [1 .. NumChunks(Len(bytes)) -> [1 .. (k - 1) -> GfElems]]}

\* C6: k - 1 shards reveal nothing: for every other secret of the same
\* length some choice of random coefficients makes next_shard produce the
\* same k - 1 shards at the same x.
C6_SharesRevealNothing ==
    (/\ dealer.threshold >= 2
     /\ Len(shards) = dealer.threshold - 1
     /\ DistinctX(shards))
    => \A other \in [1 .. Len(secret) -> ByteVals] :
          \E d \in AllDealers(dealer.threshold, other) :
             \A j \in 1 .. Len(shards) :
                /\ NextShardAt(d, shards[j].x).ok
                /\ NextShardAt(d, shards[j].x).shard = shards[j]

\* C7: recover_secret returns the same bytes for every permutation of a list
\* it accepts.
C7_OrderIndependent ==
    rsec.st = "ok"
    => \A f \in Reorderings(Len(shards)) :
          RecoverSecret([i \in 1 .. Len(shards) |-> shards[f[i]]]) = rsec

C7_Witness ==
    /\ rsec.st = "ok"
    /\ Len(shards) = 3
    /\ Len(shards[1].ys) = 2
    /\ shards[1].ys # shards[2].ys
    /\ shards[1].x = 2
    /\ shards[3].x = 0
    /\ rsec.val # <<0, 0, 0>>

\* C8: every shard next_shard returned has a non-zero x, the dealer's
\* threshold, secret_len equal to the length of S, and as many ys as the
\* dealer has polynomials, which is ceil(secret_len / 4).
C8_ShardShape ==
    \A j \in 1 .. Len(shards) :
       /\ shards[j].x # ZERO
       /\ shards[j].threshold = dealer.threshold
       /\ shards[j].secret_len = Len(secret)
       /\ Len(shards[j].ys) = Len(dealer.polys)
       /\ ElemBytes * Len(shards[j].ys) >= Len(secret)
       /\ ElemBytes * (Len(shards[j].ys) - 1) < Len(secret)

C8_Witness ==
    /\ Len(shards) = 3
    /\ Len(secret) = ElemBytes + 1
    /\ Len(shards[3].ys) = 2
    /\ dealer.threshold = 2

\* C9: the sanity assertion of next_shard always holds, so next_shard never
\* aborts.
C9_NextShardNeverAborts ==
    panic # SanityMsg

\* C10: recover_secret(shards) equals Dealer::recover(shards).secret() for
\* every list that passes the checks and has pairwise distinct x.
C10_FastPathAgrees ==
    (/\ rsec.st # "none"
     /\ rdealer.st # "none"
     /\ ~Rejected(shards)
     /\ DistinctX(shards))
    => (/\ rsec.st = "ok"
        /\ rdealer.st = "ok"
        /\ rsec.val = DealerSecret(rdealer.val))

C10_Witness ==
    /\ rsec.st = "ok"
    /\ rdealer.st = "ok"
    /\ rsec.val = DealerSecret(rdealer.val)
    /\ Len(shards) = 3
    /\ Len(shards[1].ys) = 2
    /\ shards[1].secret_len = 5
    /\ shards[1].ys # shards[2].ys
    /\ rdealer.val.polys[1][3] # ZERO

====
